---- MODULE Spec2Model ----
(***************************************************************************)
(* A model of textfit-web-component: the font-size limiter (limiter.js),   *)
(* the line counter (line-count.js), the overflow policies (utilities.js)  *)
(* and the <text-fit> custom element that drives them (textfit.js).        *)
(*                                                                         *)
(* Font sizes are counted in hundredths (the limiter searches a 0.01       *)
(* grid), lengths in whole pixels.  The browser's layout engine is the     *)
(* environment: a layout record chosen in Init says how the element's box  *)
(* and its text respond to a font size.                                    *)
(***************************************************************************)
EXTENDS Integers, Sequences, FiniteSets, TLC

VARIABLES
    settings,        \* the settings object handed to limiter (widthOnly is written by it)
    layout,          \* the environment: how the browser lays the element out
    styleFontSize,   \* el.style.fontSize, in hundredths; Unset when never written
    classList,       \* el.classList (the helper classes only)
    pc,              \* where the limiter call is
    low, high,       \* the search bounds: [v |-> grid value, calc |-> 0 given / 1 computed]
    fontSize,        \* limiter's local fontSize (the best fit so far)
    originalWidth, originalHeight,
    ret,             \* what limiter returned: a size, or RetFalse; NoRet before it returns
    probes,          \* iterations of the search loop in this call
    call,            \* "first", or how the second call came about: "again", "other"
    firstRet,        \* what the first call returned
    firstSettings,   \* the settings the first call was given
    entry,           \* history: [style, classes] of the element when the call began
    tree,            \* the DOM under the element: its nodes in document order
    lcPc,            \* where the lineCount call is
    naturalHeight,   \* lineCount's naturalHeight
    elementsToCount, \* textNodesUnder's array a: the blocks to measure (node numbers)
    walkAt,          \* the TreeWalker's position: the next node to look at
    blockAt,         \* the forEach index into the blocks
    totalLineCount,
    linesCounted,    \* el.dataset.linesCounted of every node; Unset when never written
    lcResult,        \* what lineCount returned; NoResult before it returns
    synthetic,       \* the blocks that hold an appended <br> and non-breaking space
    measured,        \* history: [natural, after], the heights read for the last block
    attrs,           \* the attributes of the <text-fit> element
    connected,       \* the element is in the document
    fontsPending,    \* a document.fonts.ready callback of the element is waiting
    resizeListeners, \* how many resize listeners the element has added to window
    pending,         \* listeners of the resize event being dispatched still to call
    observer,        \* this.observer: [on, wait, id]
    timers,          \* the debounce timers running: [due, id]
    now,             \* the clock, in ms
    rvPc,            \* where runValidation is: "idle", "limiter", "finish"
    done,            \* this.done
    dataLineCount,   \* this.dataset.lineCount; Unset when never written
    dataOverflow,    \* this.dataset.overflow: "" when absent
    events,          \* history: how many outside events have happened
    passes,          \* history: how many validation passes have started
    pass,            \* history: [cause, at, style, limiter] of the last pass started
    lastResize,      \* history: when the last resize event happened; Unset before
    detached,        \* history: disconnected, and no attribute set since
    reads,           \* history: how many times the lineCount property was read
    ovMode,          \* checkOverflow's maxHeightMode in a call of its own
    ovMeasures,      \* what the DOM reports for the element of that call
    ovResult         \* what that call gave: "true", "false", "undefined", "throw"

fitVars == <<settings, layout, styleFontSize, classList, pc, low, high, fontSize,
             originalWidth, originalHeight, ret, probes, call, firstRet,
             firstSettings, entry>>

lcVars == <<tree, lcPc, naturalHeight, elementsToCount, walkAt, blockAt, totalLineCount,
            linesCounted, lcResult, synthetic, measured>>

elVars == <<attrs, connected, fontsPending, resizeListeners, pending, observer, timers,
            now, rvPc, done, dataLineCount, dataOverflow, events, passes, pass,
            lastResize, detached, reads>>

ovVars == <<ovMode, ovMeasures, ovResult>>

vars == <<fitVars, lcVars, elVars, ovVars>>

----------------------------------------------------------------------------
(* Bounds of the model *)

MaxSize == 300          \* the largest maxFontSize tried, in hundredths
MaxEvents == 3          \* the most outside events in a run
MaxTime == 3            \* the clock's last millisecond
DebounceMs == 2         \* the debounce-time tried
MaxNodes == 4           \* the most nodes of a DOM tree, the element included

\* the inputs tried
MaxFontSizes == {0, 100, MaxSize, 10000}
MinFontSizes == {0, 150, 250}
WrapPoints == {2, 173, 20000}
ElemWrapPoints == {9950, 20000}

----------------------------------------------------------------------------
(* Numbers *)

NaN == 0 - 1000000
IsNaN(x) == x = NaN

Max(a, b) == IF a >= b THEN a ELSE b
Min(a, b) == IF a <= b THEN a ELSE b

\* a <= b on JavaScript numbers: false when either side is NaN
LessEq(a, b) == ~IsNaN(a) /\ ~IsNaN(b) /\ a <= b
Greater(a, b) == ~IsNaN(a) /\ ~IsNaN(b) /\ a > b
Minus(a, b) == IF IsNaN(a) \/ IsNaN(b) THEN NaN ELSE a - b

\* Math.floor of a size in hundredths, still in hundredths
Hundred == 100
FloorSize(s) == (s \div Hundred) * Hundred

Unset == 0 - 1
NoRet == 0 - 2
RetFalse == 0 - 3

----------------------------------------------------------------------------
(* The environment: the browser's layout of the <text-fit> element.        *)
(* The element holds one run of text directly.  A line of text is as high  *)
(* as the font size; the text wraps onto a second line above layout.wrapAt.*)

TextLines(s) == IF s <= layout.wrapAt THEN 1 ELSE 2
ContentHeight(s) == TextLines(s) * s

\* getBoundingClientRect().width: a box laid out by its container keeps its
\* width; a shrink-to-fit box grows with its text
RectWidth(s) == IF layout.wKind = "content" THEN s ELSE layout.boxW

\* getBoundingClientRect().height, with `extra` more lines of text appended
RectHeight(grow, s, extra) ==
    IF grow /\ layout.parentH > 0 THEN layout.parentH
    ELSE IF layout.hKind = "fixed" THEN layout.boxH
    ELSE ContentHeight(s) + extra * s

\* what parseFloat gives for the padding and border of an element that is
\* not laid out yet
Padding(kind) == IF kind = "nan" THEN NaN ELSE 0

getWidth(s) == Minus(RectWidth(s), Padding(layout.wKind))

getHeightPlus(grow, s, extra) == Minus(RectHeight(grow, s, extra), Padding(layout.hKind))

getHeight(grow, s) == getHeightPlus(grow, s, 0)

\* range.getBoundingClientRect().height of the element's contents
RangeHeight(s, extra) == ContentHeight(s) + extra * s

\* element.scrollHeight: the content, at least the box
ScrollHeight(s) ==
    LET h == getHeight(FALSE, s) IN
    IF IsNaN(h) THEN ContentHeight(s) ELSE Max(ContentHeight(s), h)

\* the size in effect on the element
EffSize == IF styleFontSize = Unset THEN layout.inherit ELSE styleFontSize

----------------------------------------------------------------------------
(* line-count.js: the arithmetic of one measured block *)

\* getAccurateHeight: the range's height when it is positive, else getHeight
getAccurateHeight(elemH, rangeH, hasChild) ==
    IF hasChild /\ Greater(rangeH, 0) THEN rangeH ELSE elemH

\* Math.round(h / d) for h >= 0 and d > 0
RoundDiv(h, d) == (2 * h + d) \div (2 * d)

\* no sanity check: the lines are never capped
noReasonableLines(elHeight, d) == NaN

\* Math.floor(elHeight / (d * 0.5)) for d > 0
maxReasonableLines(elHeight, d) ==
    IF IsNaN(elHeight) THEN NaN ELSE (2 * elHeight) \div d

\* the block is skipped: `naturalNodeHeight <= 0` leads to
\* heightCache.set(elementId, 0), and elementId is declared nowhere
SkipThrows(naturalNodeHeight) == LessEq(naturalNodeHeight, 0)

elementLineCount(elHeight, naturalNodeHeight, newHeight) ==
    LET additionalLineNodeHeight == Minus(newHeight, naturalNodeHeight)
        lines == Max(1, RoundDiv(naturalNodeHeight, additionalLineNodeHeight))
        cap == maxReasonableLines(elHeight, additionalLineNodeHeight)
    IN  IF Greater(additionalLineNodeHeight, 0)
        THEN IF Greater(lines, cap) /\ Greater(cap, 0) THEN cap ELSE lines
        ELSE IF Greater(naturalNodeHeight, 0) THEN 1 ELSE 0

\* the end of lineCount: clamp, then the floor for an element with text
finalLineCount(total, hasText) ==
    LET t == IF IsNaN(total) \/ total < 0 THEN 0 ELSE total
    IN  IF t = 0 /\ hasText THEN 1 ELSE t

\* el.lineCount as the limiter reads it: lineCount(el) of the element laid out
\* at size s, its one block being the element itself.  "threw" when the call
\* throws.
LineCountAt(s) ==
    LET elHeight == getHeight(FALSE, s)
        naturalNodeHeight == getAccurateHeight(elHeight, RangeHeight(s, 0), TRUE)
        newHeight == getAccurateHeight(getHeightPlus(FALSE, s, 1), RangeHeight(s, 1), TRUE)
    IN  IF SkipThrows(naturalNodeHeight)
        THEN [threw |-> TRUE, lineCount |-> 0]
        ELSE [threw |-> FALSE,
              lineCount |-> finalLineCount(
                  elementLineCount(elHeight, naturalNodeHeight, newHeight), TRUE)]

----------------------------------------------------------------------------
(* utilities.js: checkOverflow *)

NoPolicy == [kind |-> "none", n |-> 0]
Policies == {NoPolicy, [kind |-> "self", n |-> 0], [kind |-> "innerbox", n |-> 0]}

\* Math.ceil(x * n / 100)
CeilPercent(x, n) == 0 - ((0 - (x * n)) \div Hundred)

\* m: what the DOM reports for the element.  The answer is "true", "false",
\* "undefined" (no branch returns) or "throw".
checkOverflow(maxHeightMode, m) ==
    CASE maxHeightMode.kind = "parent" ->
            IF Greater(m.scrollHeight, m.parentHeight) THEN "true" ELSE "false"
      [] maxHeightMode.kind = "outerbox" ->
            IF m.hasParent /\ Greater(m.bottom, m.parentBottom) THEN "true" ELSE "false"
      [] maxHeightMode.kind = "innerbox" ->
            \* element.childNodes is a NodeList: it has no `some`
            IF m.childNodes THEN "throw" ELSE "false"
      [] maxHeightMode.kind = "css" ->
            IF Greater(m.scrollHeight, m.cssMaxHeight) THEN "true" ELSE "false"
      [] maxHeightMode.kind = "self" ->
            IF Greater(m.scrollHeight, m.height) THEN "true" ELSE "false"
      [] maxHeightMode.kind = "onScreen" ->
            IF Greater(m.bottom, m.innerHeight) THEN "true" ELSE "false"
      [] maxHeightMode.kind = "percent" ->
            IF Greater(m.scrollHeight,
                       CeilPercent(Max(m.clientHeight, m.innerHeight), maxHeightMode.n))
            THEN "true" ELSE "false"
      [] maxHeightMode.kind = "pixels" ->
            IF Greater(m.scrollHeight, maxHeightMode.n) THEN "true" ELSE "false"
      [] OTHER -> "undefined"

\* what the DOM reports for the laid-out <text-fit> element at size s: it sits
\* at the top of its parent and of the viewport
MeasuresAt(s) ==
    LET h == getHeight(FALSE, s)
        bottom == IF IsNaN(h) THEN ContentHeight(s) ELSE h
        parentHeight == IF layout.parentH > 0 THEN layout.parentH ELSE bottom
    IN  [scrollHeight |-> ScrollHeight(s),
         height |-> h,
         parentHeight |-> parentHeight,
         hasParent |-> TRUE,
         bottom |-> bottom,
         parentBottom |-> parentHeight,
         cssMaxHeight |-> NaN,
         innerHeight |-> layout.viewport,
         clientHeight |-> layout.viewport,
         childNodes |-> TRUE,
         childBottoms |-> {ContentHeight(s)}]

----------------------------------------------------------------------------
(* IEEE-754 arithmetic of the search bounds.                               *)
(* A bound is [v, calc]: v is the grid value it stands for (hundredths);   *)
(* calc = 0 when it is the double of that decimal (a setting, or the       *)
(* parseFloat of a toFixed string), calc = 1 when it was computed as       *)
(* mid + 0.01 (low) or mid - 0.01 (high).  A double x near the grid value  *)
(* k is kept as its error 100 * 2^59 * (x - k/100), a small integer: every *)
(* double in the range is a multiple of 2^-59.                             *)

Pow2Table[n \in 0 .. 16] == IF n = 0 THEN 1 ELSE 2 * Pow2Table[n - 1]
Pow2(n) == Pow2Table[n]

Pow2Mod200Table[n \in 0 .. 60] == IF n = 0 THEN 1 ELSE (2 * Pow2Mod200Table[n - 1]) % 200
Pow2Mod200(n) == Pow2Mod200Table[n]

\* the largest grid value the arithmetic meets: a sum of two bounds
GridTop == 20002

\* floor(log2(n)) for n >= 1
Log2Floor[n \in 1 .. 256 * GridTop] == IF n < 2 THEN 0 ELSE 1 + Log2Floor[n \div 2]

\* the binary exponent of the real number (k * 2^59 + d) / (100 * 2^59)
Binade(k, d) ==
    LET e == Log2Floor[(128 * k) \div 100] - 7
    IN  IF 128 * k = 100 * Pow2(e + 7) /\ d < 0 THEN e - 1 ELSE e

\* round to nearest with the unit in the last place ulp (in 2^-59), ties to
\* even: rho is k * 2^59 / ulp modulo 200
RoundAt(ulp, rho, d) ==
    LET r == (ulp * (rho % 100) + d) % (100 * ulp) IN
    IF r < 50 * ulp THEN d - r
    ELSE IF r > 50 * ulp THEN d + 100 * ulp - r
    ELSE IF ((ulp * rho + d - r) % (200 * ulp)) \div (100 * ulp) = 0 THEN d - r
    ELSE d + 100 * ulp - r

\* round to nearest double: the error of the double nearest to the real
\* number of grid value k and error d
Fl(k, d) ==
    IF k = 0 THEN 0
    ELSE LET e == Binade(k, d)
         IN  RoundAt(Pow2(e + 7), (k * Pow2Mod200(52 - e)) % 200, d)

\* parseFloat of a decimal with two places
CanonTable == [k \in 0 .. GridTop |-> Fl(k, 0)]
Canon(k) == CanonTable[k]

\* the error of low: min as given, or mid + 0.01
lowErr(lo) ==
    IF lo.calc = 0 THEN Canon(lo.v) ELSE Fl(lo.v, Canon(lo.v - 1) + Canon(1))

\* the error of high: max as given, or mid - 0.01
highErr(hi) ==
    IF hi.calc = 0 THEN Canon(hi.v) ELSE Fl(hi.v, Canon(hi.v + 1) - Canon(1))

Given(v) == [v |-> v, calc |-> 0]
Computed(v) == [v |-> v, calc |-> 1]

\* low <= high
LoopTest(lo, hi) ==
    \/ lo.v < hi.v
    \/ lo.v = hi.v /\ lowErr(lo) <= highErr(hi)

\* the midpoint without the halving
MidNotHalved(lo, hi) == lo.v + hi.v

\* parseFloat(((high + low) / 2).toFixed(2)): toFixed rounds the double it is
\* given to the nearest hundredth, a tie to the larger
Mid(lo, hi) ==
    LET k == lo.v + hi.v IN
    IF k % 2 = 0 THEN k \div 2
    ELSE IF Fl(k, lowErr(lo) + highErr(hi)) >= 0 THEN k \div 2 + 1 ELSE k \div 2

----------------------------------------------------------------------------
(* limiter.js: limiter(el, settings) *)

DefaultMaxFontSize == 10000
DefaultMinFontSize == 0

\* x || d
OrDefault(x, d) == IF x = 0 \/ IsNaN(x) THEN d ELSE x

\* the verdict of one probe at size mid: "fits", "tooLarge", or "threw" when
\* el.lineCount or checkOverflow throws
ProbeVerdict(mid, st, grow, ow, oh) ==
    LET scrollWidth == LessEq(getWidth(mid), ow)
        scrollHeight == st.widthOnly \/ LessEq(getHeight(grow, mid), oh)
        counted == LineCountAt(mid)
        linesThrew == st.maxLines # 0 /\ counted.threw
        tooManyLines == st.maxLines # 0 /\ counted.lineCount > st.maxLines
        overflow == IF st.maxHeight # NoPolicy /\ ~tooManyLines
                    THEN checkOverflow(st.maxHeight, MeasuresAt(mid))
                    ELSE "false"
        fontSizeTooLarge == tooManyLines \/ overflow = "true"
    IN  IF linesThrew \/ overflow = "throw" THEN "threw"
        ELSE IF scrollWidth /\ scrollHeight /\ ~fontSizeTooLarge THEN "fits"
        ELSE "tooLarge"

\* the helper classes on the element when a probe throws: lineCount leaves
\* its own class behind, the limiter its full-width class
ClassesAfterThrow(mid, st) ==
    IF st.maxLines # 0 /\ LineCountAt(mid).threw
    THEN (classList \ {"growInHeight"}) \cup {"countingLines"}
    ELSE classList \ {"growInHeight"}

\* lines 36-58: the helper classes, the original box, the bounds, the gates
FitEnter ==
    /\ pc = "idle"
    /\ entry' = [style |-> styleFontSize, classes |-> classList]
    /\ classList' = classList \cup {"fullWidth"}
                      \cup (IF settings.growInHeight THEN {"growInHeight"} ELSE {})
    /\ originalWidth' = getWidth(EffSize)
    /\ originalHeight' = getHeight("growInHeight" \in classList', EffSize)
    /\ low' = Given(OrDefault(settings.minFontSize, DefaultMinFontSize))
    /\ high' = Given(OrDefault(settings.maxFontSize, DefaultMaxFontSize))
    /\ probes' = 0
    /\ IF IsNaN(originalWidth')
       THEN /\ pc' = "returned"
            /\ ret' = RetFalse
            /\ fontSize' = high'.v
            /\ settings' = settings
       ELSE /\ pc' = "loop"
            /\ ret' = NoRet
            /\ fontSize' = low'.v
            /\ settings' = IF IsNaN(originalHeight')
                           THEN [settings EXCEPT !.widthOnly = TRUE]
                           ELSE settings
    /\ UNCHANGED <<layout, styleFontSize, call, firstRet, firstSettings>>
    /\ UNCHANGED <<lcVars, elVars, ovVars>>

\* lines 61-87: one iteration of the search, the probe at mid having the
\* verdict given
ProbeWith(verdict) ==
    /\ pc = "loop"
    /\ LoopTest(low, high)
    /\ LET mid == Mid(low, high) IN
         /\ styleFontSize' = mid
         /\ probes' = probes + 1
         /\ CASE verdict = "fits" ->
                   /\ fontSize' = mid
                   /\ low' = Computed(mid + 1)
                   /\ classList' = classList \ {"growInHeight"}
                   /\ UNCHANGED <<high, pc>>
              [] verdict = "tooLarge" ->
                   /\ high' = Computed(mid - 1)
                   /\ classList' = classList \ {"growInHeight"}
                   /\ UNCHANGED <<low, fontSize, pc>>
              [] OTHER ->
                   /\ pc' = "threw"
                   /\ classList' = ClassesAfterThrow(mid, settings)
                   /\ UNCHANGED <<low, high, fontSize>>
    /\ UNCHANGED <<settings, layout, originalWidth, originalHeight, ret, call,
                   firstRet, firstSettings, entry>>
    /\ UNCHANGED <<lcVars, elVars, ovVars>>

\* the probe's verdict is what the layout of the model gives at mid
FitProbe ==
    ProbeWith(ProbeVerdict(Mid(low, high), settings,
                           settings.growInHeight \/ "growInHeight" \in classList,
                           originalWidth, originalHeight))

\* the probe's verdict is any: a layout that answers each size as it likes
FitProbeAny == \E verdict \in {"fits", "tooLarge"} : ProbeWith(verdict)

\* lines 61 and 88-91: the loop test fails; commit and return
FitExit ==
    /\ pc = "loop"
    /\ ~LoopTest(low, high)
    /\ classList' = classList \ {"fullWidth"}
    /\ styleFontSize' = FloorSize(fontSize)
    /\ ret' = fontSize
    /\ pc' = "returned"
    /\ UNCHANGED <<settings, layout, low, high, fontSize, originalWidth, originalHeight,
                   probes, call, firstRet, firstSettings, entry>>
    /\ UNCHANGED <<lcVars, elVars, ovVars>>

----------------------------------------------------------------------------
(* line-count.js: the DOM under the element.                               *)
(* tree is the sequence of its nodes in document order; node 1 is the      *)
(* element itself.  Of an element node only what textNodesUnder reads is   *)
(* kept: whether its tag is one of blockSemanticTags, of inlineSemanticTags *)
(* or neither, and whether its computed display is inline / inline-block.  *)

\* the <<tag, display>> pairs textNodesUnder tells apart: it reads the tag of
\* an element only when its display is inline
ElemKinds == {<<"block", "block">>, <<"block", "inline">>,
              <<"inlineSem", "inline">>, <<"generic", "inline">>}

ElemNode(p, tag, display) ==
    [parent |-> p, kind |-> "elem", tag |-> tag, display |-> display, blank |-> FALSE]

\* a text node; blank when textContent.trim() is empty
TextNode(p, blank) ==
    [parent |-> p, kind |-> "text", tag |-> "none", display |-> "none", blank |-> blank]

\* the <text-fit> element: display: block
RootNode == ElemNode(0, "generic", "block")

\* x is a proper ancestor of y in t
RECURSIVE AncestorIn(_, _, _)
AncestorIn(t, x, y) ==
    IF t[y].parent = 0 THEN FALSE
    ELSE t[y].parent = x \/ AncestorIn(t, x, t[y].parent)

\* the elements a node that follows t in document order can be a child of
Spine(t) ==
    {p \in 1 .. Len(t) : t[p].kind = "elem" /\ (p = Len(t) \/ AncestorIn(t, p, Len(t)))}

Extensions(t) ==
    {Append(t, ElemNode(p, k[1], k[2])) : p \in Spine(t), k \in ElemKinds}
        \cup {Append(t, TextNode(p, b)) : p \in Spine(t), b \in BOOLEAN}

\* every tree of n nodes
RECURSIVE Trees(_)
Trees(n) == IF n = 1 THEN {<<RootNode>>} ELSE UNION {Extensions(t) : t \in Trees(n - 1)}

\* trees of six nodes where two elements with text share a container
SiblingTrees ==
    {<<RootNode, ElemNode(1, c[1], c[2]), ElemNode(2, k[1], k[2]), TextNode(3, FALSE),
       ElemNode(2, "inlineSem", "inline"), TextNode(5, b)>> :
        c \in ElemKinds, k \in ElemKinds, b \in BOOLEAN}

\* Node.contains: a node contains itself
contains(x, y) == x = y \/ AncestorIn(tree, x, y)

\* x.textContent.trim() is not empty
trimmedText(x) ==
    \E t \in 1 .. Len(tree) : tree[t].kind = "text" /\ ~tree[t].blank /\ contains(x, t)

\* ["inline", "inline-block"].includes(getComputedStyle(x).display)
inlineDisplay(x) == tree[x].display = "inline"

\* Array.from(c.children)
children(c) == {x \in 1 .. Len(tree) : tree[x].kind = "elem" /\ tree[x].parent = c}

\* lines 108-116: the first ancestor from `current` up, below the element,
\* that is not displayed inline; 0 when the walk reaches the element
RECURSIVE meaningfulAncestor(_)
meaningfulAncestor(current) ==
    IF current = 1 THEN 0
    ELSE IF ~inlineDisplay(current) THEN current
    ELSE meaningfulAncestor(tree[current].parent)

\* lines 64-122: the element measured for the text node n
elementToMeasure(n) ==
    LET parentElement == tree[n].parent IN
    IF parentElement = 1 THEN 1
    ELSE IF tree[parentElement].tag = "block" \/ ~inlineDisplay(parentElement)
    THEN parentElement
    ELSE IF tree[parentElement].tag = "inlineSem"
    THEN LET container == tree[parentElement].parent
             inlineSiblings == {sibling \in children(container) :
                                    inlineDisplay(sibling) /\ trimmedText(sibling)}
         IN  IF container # 1 /\ Cardinality(inlineSiblings) > 1
             THEN container
             ELSE parentElement
    ELSE LET found == meaningfulAncestor(tree[parentElement].parent)
         IN  IF found # 0 THEN found ELSE parentElement

includes(arr, e) == \E i \in 1 .. Len(arr) : arr[i] = e

\* lines 130-144: the array after the element to measure e is dealt with
pushBlock(arr, e) ==
    IF e = 1
    THEN IF includes(arr, 1) THEN arr ELSE Append(arr, 1)
    ELSE IF includes(arr, e) THEN arr
    ELSE LET NotInside(existing) == ~contains(e, existing)
             kept == SelectSeq(arr, NotInside)
         IN  IF \E i \in 1 .. Len(kept) : contains(kept[i], e)
             THEN kept
             ELSE Append(kept, e)

\* the text nodes the TreeWalker has not reached yet
TextNodesAhead == {n \in walkAt .. Len(tree) : tree[n].kind = "text"}

\* the heights the browser may report for an element and for a range, in pixels
LinePx == 20
ElemHeights == {NaN, 0, LinePx, 2 * LinePx}
RangeHeights == {0, LinePx, 3 * LinePx, 5 * LinePx}

\* what getAccurateHeight may return for a block with text
BlockHeights == {getAccurateHeight(elemH, rangeH, TRUE) :
                     elemH \in ElemHeights, rangeH \in RangeHeights}

NoResult == [lineCount |-> Unset, naturalHeight |-> Unset, elementsProcessed |-> Unset]

\* lines 188-194: the element's height, the helper class, the walker
LcEnter ==
    /\ lcPc = "idle"
    /\ \E h \in ElemHeights : naturalHeight' = h
    /\ classList' = classList \cup {"countingLines"}
    /\ totalLineCount' = 0
    /\ elementsToCount' = <<>>
    /\ walkAt' = 2
    /\ lcPc' = "walk"
    /\ UNCHANGED <<tree, blockAt, linesCounted, lcResult, synthetic, measured>>
    /\ UNCHANGED <<settings, layout, styleFontSize, pc, low, high, fontSize,
                   originalWidth, originalHeight, ret, probes, call, firstRet,
                   firstSettings, entry>>
    /\ UNCHANGED <<elVars, ovVars>>

\* lines 62-145: one text node of the walk
LcWalk ==
    /\ lcPc = "walk"
    /\ TextNodesAhead # {}
    /\ LET n == CHOOSE x \in TextNodesAhead : \A y \in TextNodesAhead : x <= y IN
         /\ elementsToCount' = IF tree[n].blank THEN elementsToCount
                              ELSE pushBlock(elementsToCount, elementToMeasure(n))
         /\ walkAt' = n + 1
    /\ UNCHANGED <<tree, lcPc, naturalHeight, blockAt, totalLineCount, linesCounted,
                   lcResult, synthetic, measured>>
    /\ UNCHANGED <<fitVars, elVars, ovVars>>

\* lines 62 and 148: the walk is over, textNodesUnder returns the array
LcWalked ==
    /\ lcPc = "walk"
    /\ TextNodesAhead = {}
    /\ lcPc' = "blocks"
    /\ blockAt' = 1
    /\ UNCHANGED <<tree, naturalHeight, elementsToCount, walkAt, totalLineCount, linesCounted,
                   lcResult, synthetic, measured>>
    /\ UNCHANGED <<fitVars, elVars, ovVars>>

\* lines 228-231: el.appendChild(counter); el.appendChild(textNode)
appendChild(holders, el) == holders \cup {el}

\* lines 237-243: el.removeChild(textNode); el.removeChild(counter)
removeChild(holders, el) == holders \ {el}

NoHeights == [natural |-> Unset, after |-> Unset]

\* lines 208-279: one block is measured, before and after a line is appended
LcBlock ==
    /\ lcPc = "blocks"
    /\ blockAt <= Len(elementsToCount)
    /\ \E naturalNodeHeight \in BlockHeights, newHeight \in BlockHeights :
         LET el == elementsToCount[blockAt]
             counted == elementLineCount(naturalHeight, naturalNodeHeight, newHeight)
         IN  IF SkipThrows(naturalNodeHeight)
             THEN /\ lcPc' = "threw"
                  /\ measured' = [natural |-> naturalNodeHeight, after |-> Unset]
                  /\ UNCHANGED <<blockAt, totalLineCount, linesCounted, synthetic>>
             ELSE /\ synthetic' = removeChild(appendChild(synthetic, el), el)
                  /\ measured' = [natural |-> naturalNodeHeight, after |-> newHeight]
                  /\ linesCounted' = [linesCounted EXCEPT ![el] = counted]
                  /\ totalLineCount' = totalLineCount + counted
                  /\ blockAt' = blockAt + 1
                  /\ lcPc' = lcPc
    /\ UNCHANGED <<tree, naturalHeight, elementsToCount, walkAt, lcResult>>
    /\ UNCHANGED <<fitVars, elVars, ovVars>>

\* lines 280-296: the helper class is removed, the total clamped and returned
LcExit ==
    /\ lcPc = "blocks"
    /\ blockAt > Len(elementsToCount)
    /\ classList' = classList \ {"countingLines"}
    /\ lcResult' = [lineCount |-> finalLineCount(totalLineCount, trimmedText(1)),
                    naturalHeight |-> naturalHeight,
                    elementsProcessed |-> Len(elementsToCount)]
    /\ lcPc' = "returned"
    /\ UNCHANGED <<tree, naturalHeight, elementsToCount, walkAt, blockAt, totalLineCount,
                   linesCounted, synthetic, measured>>
    /\ UNCHANGED <<settings, layout, styleFontSize, pc, low, high, fontSize,
                   originalWidth, originalHeight, ret, probes, call, firstRet,
                   firstSettings, entry>>
    /\ UNCHANGED <<elVars, ovVars>>

\* no lineCount call of its own: the limiter's probes count the lines
LcNone ==
    /\ tree = <<RootNode, TextNode(1, FALSE)>>
    /\ lcPc = "none"
    /\ naturalHeight = 0
    /\ elementsToCount = <<>>
    /\ walkAt = 0
    /\ blockAt = 0
    /\ totalLineCount = 0
    /\ linesCounted = [n \in 1 .. Len(tree) |-> Unset]
    /\ lcResult = NoResult
    /\ synthetic = {}
    /\ measured = NoHeights

----------------------------------------------------------------------------
(* textfit.js: the <text-fit> custom element.                              *)
(* JavaScript runs one task at a time: an outside event is taken only when *)
(* no validation pass is running and no resize dispatch is under way.      *)

AttrMaxFontSize == 10000     \* parseFloat(...) || 100
AttrMinFontSize == 5000      \* parseFloat(...) || 50

NoObserver == [on |-> FALSE, wait |-> 0, id |-> 0]
NoPass == [cause |-> "none", at |-> 0, style |-> Unset, limiter |-> FALSE]

\* lines 81-82: !this.hasAttribute("disable-dynamic-font-size") || true
dynamicFontSize(at) == (~at.disableDynamic) \/ TRUE

\* lines 100-108: the settings object runValidation hands to limiter
LimiterSettings(at) ==
    [maxFontSize |-> OrDefault(at.maxFontSize, AttrMaxFontSize),
     minFontSize |-> OrDefault(at.minFontSize, AttrMinFontSize),
     fontUnit |-> "%",
     widthOnly |-> at.widthOnly,
     maxLines |-> at.maxLines,
     growInHeight |-> TRUE,
     maxHeight |-> at.maxHeight]

\* debounce.js: the callback runs once, wait ms after the last call.  The
\* timers after the debounced callback of observer o is called at time t
debounced(ts, o, t) ==
    {x \in ts : x.id # o.id} \cup {[due |-> t + o.wait, id |-> o.id]}

\* the observer is left as it is
observerKept(o) == o

\* lines 76-78 and 90: this.observer.disconnect(); this.observer = false
observerDisconnected(o) == NoObserver

\* lines 74-109: runValidation up to the call of limiter, with at the
\* attributes in effect
runValidationBegin(cause, at) ==
    /\ done' = FALSE
    /\ observer' = observerDisconnected(observer)
    /\ passes' = passes + 1
    /\ pass' = [cause |-> cause, at |-> now, style |-> styleFontSize,
                limiter |-> dynamicFontSize(at)]
    /\ IF dynamicFontSize(at)
       THEN /\ rvPc' = "limiter"
            /\ pc' = "idle"
            /\ settings' = LimiterSettings(at)
       ELSE /\ rvPc' = "finish"
            /\ UNCHANGED <<pc, settings>>
    /\ UNCHANGED <<styleFontSize, classList, low, high, fontSize, originalWidth,
                   originalHeight, ret, probes, call, firstRet, firstSettings, entry>>
    /\ UNCHANGED <<dataLineCount, dataOverflow>>
    /\ UNCHANGED <<lcVars, ovVars>>

Idle == rvPc = "idle" /\ pending = 0

\* lines 178-186: connectedCallback
Connect ==
    /\ Idle
    /\ ~connected
    /\ events < MaxEvents
    /\ events' = events + 1
    /\ connected' = TRUE
    /\ fontsPending' = TRUE
    /\ detached' = FALSE
    /\ UNCHANGED reads
    /\ UNCHANGED <<attrs, resizeListeners, pending, observer, timers, now, rvPc, done,
                   dataLineCount, dataOverflow, passes, pass, lastResize>>
    /\ UNCHANGED <<fitVars, lcVars, ovVars>>

\* lines 182-183: document.fonts.ready is fulfilled; the listener of line 184
\* is added when the pass returns
FontsReady ==
    /\ Idle
    /\ fontsPending
    /\ fontsPending' = FALSE
    /\ runValidationBegin("fonts", attrs)
    /\ UNCHANGED <<attrs, connected, resizeListeners, pending, timers, now, events,
                   lastResize, detached, reads, layout>>

\* the window is resized: every listener added at line 184 is to be called
Resize ==
    /\ Idle
    /\ resizeListeners > 0
    /\ events < MaxEvents
    /\ events' = events + 1
    /\ lastResize' = now
    /\ UNCHANGED <<detached, reads>>
    /\ pending' = resizeListeners
    /\ UNCHANGED <<attrs, connected, fontsPending, resizeListeners, observer, timers, now,
                   rvPc, done, dataLineCount, dataOverflow, passes, pass>>
    /\ UNCHANGED <<fitVars, lcVars, ovVars>>

\* line 184: a resize listener, this.runValidation.bind(this), is called
ResizeListener ==
    /\ rvPc = "idle"
    /\ pending > 0
    /\ pending' = pending - 1
    /\ runValidationBegin("resize", attrs)
    /\ UNCHANGED <<attrs, connected, fontsPending, resizeListeners, timers, now, events,
                   lastResize, detached, reads, layout>>

\* lines 187-192: an observed attribute is set
AttributeChanged ==
    /\ Idle
    /\ events < MaxEvents
    /\ events' = events + 1
    /\ \E name \in {"disable-dynamic-font-size", "debounce-time", "max-lines"} :
         attrs' = CASE name = "disable-dynamic-font-size" ->
                         [attrs EXCEPT !.disableDynamic = ~@]
                    [] name = "debounce-time" ->
                         [attrs EXCEPT !.debounceTime = IF @ = 0 THEN DebounceMs ELSE 0]
                    [] OTHER ->
                         [attrs EXCEPT !.maxLines = 1 - @]
    /\ detached' = FALSE
    /\ UNCHANGED reads
    /\ runValidationBegin("attribute", attrs')
    /\ UNCHANGED <<connected, fontsPending, resizeListeners, pending, timers, now,
                   lastResize, layout>>

\* the content of the element is changed from outside; lines 136-150: the
\* observer's callback runs the pass, or its debounced form is called
Mutate ==
    /\ Idle
    /\ events < MaxEvents
    /\ events' = events + 1
    /\ \E w \in ElemWrapPoints : layout' = [layout EXCEPT !.wrapAt = w]
    /\ IF observer.on /\ observer.wait = 0
       THEN /\ runValidationBegin("mutation", attrs)
            /\ UNCHANGED timers
       ELSE /\ timers' = IF observer.on THEN debounced(timers, observer, now) ELSE timers
            /\ UNCHANGED <<observer, rvPc, done, dataLineCount, dataOverflow, passes, pass>>
            /\ UNCHANGED <<settings, styleFontSize, classList, pc, low, high, fontSize,
                           originalWidth, originalHeight, ret, probes, call, firstRet,
                           firstSettings, entry>>
            /\ UNCHANGED <<lcVars, ovVars>>
    /\ UNCHANGED <<attrs, connected, fontsPending, resizeListeners, pending, now,
                   lastResize, detached, reads>>

\* lines 153-155: a script reads el.lineCount.  lineCount(this) adds and
\* removes its class on the element, appends and removes its nodes and writes
\* data-lines-counted: the observer of lines 136-150, when connected, gets
\* the records as the script ends and its callback runs the pass, or calls
\* its debounced form.  A block without height makes the getter throw, its
\* class left on the element.
ReadLineCount ==
    /\ Idle
    /\ events < MaxEvents
    /\ events' = events + 1
    /\ reads' = reads + 1
    /\ classList' = IF LineCountAt(EffSize).threw
                     THEN classList \cup {"countingLines"}
                     ELSE classList
    /\ IF observer.on /\ observer.wait = 0
       THEN /\ done' = FALSE
            /\ observer' = observerDisconnected(observer)
            /\ passes' = passes + 1
            /\ pass' = [cause |-> "lineCount", at |-> now, style |-> styleFontSize,
                        limiter |-> dynamicFontSize(attrs)]
            /\ IF dynamicFontSize(attrs)
               THEN /\ rvPc' = "limiter"
                    /\ pc' = "idle"
                    /\ settings' = LimiterSettings(attrs)
               ELSE /\ rvPc' = "finish"
                    /\ UNCHANGED <<pc, settings>>
            /\ UNCHANGED timers
       ELSE /\ timers' = IF observer.on THEN debounced(timers, observer, now) ELSE timers
            /\ UNCHANGED <<observer, rvPc, done, passes, pass, pc, settings>>
    /\ UNCHANGED <<layout, styleFontSize, low, high, fontSize, originalWidth,
                   originalHeight, ret, probes, call, firstRet, firstSettings, entry>>
    /\ UNCHANGED <<attrs, connected, fontsPending, resizeListeners, pending, now,
                   dataLineCount, dataOverflow, lastResize, detached>>
    /\ UNCHANGED <<lcVars, ovVars>>

\* lines 138-140: a debounce timer runs out
TimerFire ==
    /\ Idle
    /\ \E t \in timers :
         /\ t.due <= now
         /\ timers' = timers \ {t}
    /\ runValidationBegin("mutation", attrs)
    /\ UNCHANGED <<attrs, connected, fontsPending, resizeListeners, pending, now, events,
                   lastResize, detached, reads, layout>>

\* a millisecond passes with nothing to run
Tick ==
    /\ Idle
    /\ ~fontsPending
    /\ \A t \in timers : t.due > now
    /\ now < MaxTime
    /\ now' = now + 1
    /\ UNCHANGED <<attrs, connected, fontsPending, resizeListeners, pending, observer,
                   timers, rvPc, done, dataLineCount, dataOverflow, events, passes, pass,
                   lastResize, detached, reads>>
    /\ UNCHANGED <<fitVars, lcVars, ovVars>>

\* lines 193-198: disconnectedCallback; removeEventListener is given a new
\* bound function, which no listener is
Disconnect ==
    /\ Idle
    /\ connected
    /\ events < MaxEvents
    /\ events' = events + 1
    /\ connected' = FALSE
    /\ detached' = TRUE
    /\ UNCHANGED reads
    /\ observer' = IF observer.on THEN [observer EXCEPT !.on = FALSE] ELSE observer
    /\ UNCHANGED <<attrs, fontsPending, resizeListeners, pending, timers, now, rvPc, done,
                   dataLineCount, dataOverflow, passes, pass, lastResize>>
    /\ UNCHANGED <<fitVars, lcVars, ovVars>>

\* lines 111-127 throw: lineCount on a block without height, checkOverflow on
\* the innerbox policy
FinishThrows ==
    \/ attrs.maxLines # 0 /\ LineCountAt(EffSize).threw
    \/ attrs.maxHeight # NoPolicy
         /\ checkOverflow(attrs.maxHeight, MeasuresAt(EffSize)) = "throw"

\* lines 113-134: this.overflow at the end of the pass
OverflowMessage ==
    IF attrs.maxHeight # NoPolicy
         /\ checkOverflow(attrs.maxHeight, MeasuresAt(EffSize)) = "true"
    THEN "More content has been added than space allows"
    ELSE IF attrs.maxLines # 0 /\ LineCountAt(EffSize).lineCount > attrs.maxLines
    THEN "There can only be a single line of content here"
    ELSE ""

\* lines 109-152: limiter has returned (or was not called); the rest of the
\* pass
RvFinish ==
    /\ IF rvPc = "limiter" THEN pc = "returned" ELSE rvPc = "finish"
    /\ rvPc' = "idle"
    /\ pc' = "none"
    /\ IF FinishThrows
       THEN /\ classList' = IF attrs.maxLines # 0 /\ LineCountAt(EffSize).threw
                            THEN classList \cup {"countingLines"}
                            ELSE classList
            /\ UNCHANGED <<observer, done, dataLineCount, dataOverflow, resizeListeners>>
       ELSE /\ dataLineCount' = IF attrs.maxLines # 0
                                THEN LineCountAt(EffSize).lineCount
                                ELSE dataLineCount
            /\ dataOverflow' = IF attrs.displayOverflowError THEN OverflowMessage ELSE ""
            /\ observer' = [on |-> TRUE, wait |-> attrs.debounceTime, id |-> passes]
            /\ done' = TRUE
            /\ resizeListeners' = IF pass.cause = "fonts"
                                  THEN resizeListeners + 1
                                  ELSE resizeListeners
            /\ UNCHANGED classList
    /\ UNCHANGED <<attrs, connected, fontsPending, pending, timers, now, events, passes,
                   pass, lastResize, detached, reads>>
    /\ UNCHANGED <<settings, layout, styleFontSize, low, high, fontSize, originalWidth,
                   originalHeight, ret, probes, call, firstRet, firstSettings, entry>>
    /\ UNCHANGED <<lcVars, ovVars>>

\* limiter threw: the exception leaves runValidation at line 100
RvThrow ==
    /\ rvPc = "limiter"
    /\ pc = "threw"
    /\ rvPc' = "idle"
    /\ pc' = "none"
    /\ UNCHANGED <<attrs, connected, fontsPending, resizeListeners, pending, observer,
                   timers, now, done, dataLineCount, dataOverflow, events, passes, pass,
                   lastResize, detached, reads>>
    /\ UNCHANGED <<settings, layout, styleFontSize, classList, low, high, fontSize,
                   originalWidth, originalHeight, ret, probes, call, firstRet,
                   firstSettings, entry>>
    /\ UNCHANGED <<lcVars, ovVars>>

\* no <text-fit> element: limiter or lineCount is called directly
ElNone ==
    /\ attrs = [disableDynamic |-> FALSE, debounceTime |-> 0, maxLines |-> 0,
                maxHeight |-> NoPolicy, maxFontSize |-> NaN, minFontSize |-> NaN,
                widthOnly |-> FALSE, displayOverflowError |-> FALSE]
    /\ connected = FALSE
    /\ fontsPending = FALSE
    /\ resizeListeners = 0
    /\ pending = 0
    /\ observer = NoObserver
    /\ timers = {}
    /\ now = 0
    /\ rvPc = "idle"
    /\ done = FALSE
    /\ dataLineCount = Unset
    /\ dataOverflow = ""
    /\ events = 0
    /\ passes = 0
    /\ pass = NoPass
    /\ lastResize = Unset
    /\ detached = FALSE
    /\ reads = 0

----------------------------------------------------------------------------
(* utilities.js: checkOverflow called on its own *)

NoMeasures ==
    [scrollHeight |-> 0, height |-> 0, parentHeight |-> 0, hasParent |-> FALSE,
     bottom |-> 0, parentBottom |-> 0, cssMaxHeight |-> NaN, innerHeight |-> 0,
     clientHeight |-> 0, childNodes |-> TRUE, childBottoms |-> {}]

\* no call of checkOverflow of its own
OvNone ==
    /\ ovMode = NoPolicy
    /\ ovMeasures = NoMeasures
    /\ ovResult = "none"

\* the max-height values of the README, a percentage, pixels, and a word
\* that is none of them
OverflowModes ==
    {[kind |-> k, n |-> 0] :
        k \in {"parent", "outerbox", "innerbox", "css", "self", "onScreen", "unknown"}}
      \cup {[kind |-> "percent", n |-> 50], [kind |-> "pixels", n |-> 110]}

\* line 137: checkOverflow(element, maxHeightMode)
OvCall ==
    /\ ovResult = "none"
    /\ ovResult' = checkOverflow(ovMode, ovMeasures)
    /\ UNCHANGED <<ovMode, ovMeasures>>
    /\ UNCHANGED <<fitVars, lcVars, elVars>>

----------------------------------------------------------------------------
(* The callers of limiter in the model *)

\* the same caller calls again: same element as the first call left it, same
\* settings object
FitAgain ==
    /\ pc = "returned"
    /\ call = "first"
    /\ ret # RetFalse
    /\ call' = "again"
    /\ firstRet' = ret
    /\ pc' = "idle"
    /\ ret' = NoRet
    /\ UNCHANGED <<settings, layout, styleFontSize, classList, low, high, fontSize,
                   originalWidth, originalHeight, probes, firstSettings, entry>>
    /\ UNCHANGED <<lcVars, elVars, ovVars>>

\* the call is made on the element as it was before the first call, with
\* another maxFontSize and everything else as the first caller gave it
FitOther ==
    /\ pc = "returned"
    /\ call = "first"
    /\ ret # RetFalse
    /\ \E m \in MaxFontSizes : settings' = [firstSettings EXCEPT !.maxFontSize = m]
    /\ styleFontSize' = Unset
    /\ classList' = {}
    /\ call' = "other"
    /\ firstRet' = ret
    /\ pc' = "idle"
    /\ ret' = NoRet
    /\ UNCHANGED <<layout, low, high, fontSize, originalWidth, originalHeight,
                   probes, firstSettings, entry>>
    /\ UNCHANGED <<lcVars, elVars, ovVars>>

\* the same caller calls again with the same settings object, once the
\* element's height has become measurable
FitLater ==
    /\ pc = "returned"
    /\ call = "first"
    /\ ret # RetFalse
    /\ layout.hKind = "nan"
    /\ \E h \in {"auto", "fixed"} : layout' = [layout EXCEPT !.hKind = h]
    /\ call' = "later"
    /\ firstRet' = ret
    /\ pc' = "idle"
    /\ ret' = NoRet
    /\ UNCHANGED <<settings, styleFontSize, classList, low, high, fontSize,
                   originalWidth, originalHeight, probes, firstSettings, entry>>
    /\ UNCHANGED <<lcVars, elVars, ovVars>>

FitInit ==
    /\ settings \in [maxFontSize : MaxFontSizes,
                     minFontSize : MinFontSizes,
                     growInHeight : BOOLEAN,
                     widthOnly : BOOLEAN,
                     maxLines : {0, 1},
                     maxHeight : Policies,
                     fontUnit : {"%"}]
    /\ layout \in [wKind : {"box", "content", "nan"},
                   hKind : {"auto", "fixed", "nan"},
                   boxW : {200},
                   boxH : {120},
                   parentH : {0, 240},
                   wrapAt : WrapPoints,
                   inherit : {82, 220},
                   viewport : {1000}]
    /\ styleFontSize = Unset
    /\ classList = {}
    /\ pc = "idle"
    /\ low = Given(0)
    /\ high = Given(0)
    /\ fontSize = 0
    /\ originalWidth = 0
    /\ originalHeight = 0
    /\ ret = NoRet
    /\ probes = 0
    /\ call = "first"
    /\ firstRet = NoRet
    /\ firstSettings = settings
    /\ entry = [style |-> Unset, classes |-> {}]

\* no limiter call
FitNone ==
    /\ settings = [maxFontSize |-> 0, minFontSize |-> 0, growInHeight |-> FALSE,
                   widthOnly |-> FALSE, maxLines |-> 0, maxHeight |-> NoPolicy,
                   fontUnit |-> "%"]
    /\ layout = [wKind |-> "box", hKind |-> "auto", boxW |-> 200, boxH |-> 120,
                 parentH |-> 0, wrapAt |-> 20000, inherit |-> 220, viewport |-> 1000]
    /\ styleFontSize = Unset
    /\ classList = {}
    /\ pc = "none"
    /\ low = Given(0)
    /\ high = Given(0)
    /\ fontSize = 0
    /\ originalWidth = 0
    /\ originalHeight = 0
    /\ ret = NoRet
    /\ probes = 0
    /\ call = "first"
    /\ firstRet = NoRet
    /\ firstSettings = settings
    /\ entry = [style |-> Unset, classes |-> {}]

\* one call of limiter
Init == FitInit /\ LcNone /\ ElNone /\ OvNone
Next == FitEnter \/ FitProbe \/ FitExit
Spec == Init /\ [][Next]_vars

\* a call of limiter while the height cannot be measured, and a later one
LaterInit ==
    /\ FitInit
    /\ layout.hKind = "nan"
    /\ layout.wKind # "nan"
    /\ LcNone
    /\ ElNone
    /\ OvNone
LaterNext == FitEnter \/ FitProbe \/ FitExit \/ FitLater
SpecLater == LaterInit /\ [][LaterNext]_vars

\* one call of limiter on an element whose layout answers the probes in any
\* way, monotone in the size or not
AnyInit ==
    /\ FitInit
    /\ settings.growInHeight = FALSE
    /\ settings.widthOnly = FALSE
    /\ settings.maxLines = 0
    /\ settings.maxHeight = NoPolicy
    /\ settings.maxFontSize # 100 * Hundred    \* that is the default's range
    /\ settings.minFontSize # 150
    /\ layout = [wKind |-> "box", hKind |-> "auto", boxW |-> 200, boxH |-> 120,
                 parentH |-> 0, wrapAt |-> 20000, inherit |-> 220, viewport |-> 1000]
    /\ LcNone
    /\ ElNone
    /\ OvNone
AnyNext == FitEnter \/ FitProbeAny \/ FitExit
\* a call that has begun runs on: JavaScript runs limiter to its end
SpecAny == AnyInit /\ [][AnyNext]_vars /\ WF_vars(AnyNext)

\* two calls of limiter on one element
TwiceInit == FitInit /\ LcNone /\ ElNone /\ OvNone
TwiceNext == FitEnter \/ FitProbe \/ FitExit \/ FitAgain \/ FitOther
SpecTwice == TwiceInit /\ [][TwiceNext]_vars

\* one call of lineCount on an element holding any tree of up to MaxNodes
\* nodes, or one of the sibling trees
LinesInit ==
    /\ FitNone
    /\ ElNone
    /\ OvNone
    /\ tree \in UNION {Trees(n) : n \in 1 .. MaxNodes} \cup SiblingTrees
    /\ lcPc = "idle"
    /\ naturalHeight = 0
    /\ elementsToCount = <<>>
    /\ walkAt = 0
    /\ blockAt = 0
    /\ totalLineCount = 0
    /\ linesCounted = [n \in 1 .. Len(tree) |-> Unset]
    /\ lcResult = NoResult
    /\ synthetic = {}
    /\ measured = NoHeights
LinesNext == LcEnter \/ LcWalk \/ LcWalked \/ LcBlock \/ LcExit
SpecLines == LinesInit /\ [][LinesNext]_vars

\* a <text-fit> element created with some attributes, then connected, resized,
\* changed and disconnected
ElemInit ==
    /\ attrs \in [disableDynamic : BOOLEAN,
                  debounceTime : {0, DebounceMs},
                  maxLines : {0, 1},
                  maxHeight : {NoPolicy, [kind |-> "innerbox", n |-> 0]},
                  maxFontSize : {NaN},
                  minFontSize : {9900},
                  widthOnly : {FALSE},
                  displayOverflowError : {TRUE}]
    /\ settings = LimiterSettings(attrs)
    /\ layout \in [wKind : {"box"}, hKind : {"auto"}, boxW : {200}, boxH : {120},
                   parentH : {0}, wrapAt : ElemWrapPoints, inherit : {10000},
                   viewport : {1000}]
    /\ styleFontSize = Unset
    /\ classList = {}
    /\ pc = "none"
    /\ low = Given(0)
    /\ high = Given(0)
    /\ fontSize = 0
    /\ originalWidth = 0
    /\ originalHeight = 0
    /\ ret = NoRet
    /\ probes = 0
    /\ call = "first"
    /\ firstRet = NoRet
    /\ firstSettings = settings
    /\ entry = [style |-> Unset, classes |-> {}]
    /\ LcNone
    /\ OvNone
    /\ connected = FALSE
    /\ fontsPending = FALSE
    /\ resizeListeners = 0
    /\ pending = 0
    /\ observer = NoObserver
    /\ timers = {}
    /\ now = 0
    /\ rvPc = "idle"
    /\ done = FALSE
    /\ dataLineCount = Unset
    /\ dataOverflow = ""
    /\ events = 0
    /\ passes = 0
    /\ pass = NoPass
    /\ lastResize = Unset
    /\ detached = FALSE
    /\ reads = 0
ElemNext ==
    \/ Connect \/ FontsReady \/ Resize \/ ResizeListener \/ AttributeChanged \/ Mutate
    \/ ReadLineCount \/ TimerFire \/ Tick \/ Disconnect
    \/ FitEnter \/ FitProbe \/ FitExit \/ RvFinish \/ RvThrow
SpecElem == ElemInit /\ [][ElemNext]_vars

\* one call of checkOverflow on an element with up to two children
OverflowInit ==
    /\ FitNone
    /\ LcNone
    /\ ElNone
    /\ ovMode \in OverflowModes
    /\ ovMeasures \in [scrollHeight : {0, 100, 130},
                       height : {NaN, 100},
                       parentHeight : {100, 120},
                       hasParent : BOOLEAN,
                       bottom : {100, 130},
                       parentBottom : {120},
                       cssMaxHeight : {NaN, 110},
                       innerHeight : {120},
                       clientHeight : {100},
                       childNodes : {TRUE},
                       childBottoms : SUBSET {90, 140}]
    /\ ovResult = "none"
OverflowNext == OvCall
SpecOverflow == OverflowInit /\ [][OverflowNext]_vars

----------------------------------------------------------------------------
(* Claims about limiter *)

Returned == pc = "returned" /\ ret # RetFalse

\* the bounds the search starts from
EffMin == OrDefault(settings.minFontSize, DefaultMinFontSize)
EffMax == OrDefault(settings.maxFontSize, DefaultMaxFontSize)

VerdictAt(s) ==
    ProbeVerdict(s, settings, settings.growInHeight, originalWidth, originalHeight)

FittingSizes == {s \in EffMin .. EffMax : VerdictAt(s) = "fits"}

MonotoneFit ==
    \A s \in EffMin .. EffMax - 1 :
        /\ VerdictAt(s) # "threw"
        /\ VerdictAt(s + 1) # "threw"
        /\ VerdictAt(s + 1) = "fits" => VerdictAt(s) = "fits"

\* C2: on the 0.01 grid with minFontSize <= maxFontSize and a fit predicate
\* that is monotone in the font size, limiter returns the largest size of the
\* range that fits, and minFontSize when none fits; with maxLines set the
\* size returned never has more lines than maxLines when some size fits.
C2_LargestFitting ==
    (Returned /\ EffMin <= EffMax /\ MonotoneFit) =>
        /\ FittingSizes = {} => ret = EffMin
        /\ FittingSizes # {} => /\ ret \in FittingSizes
                                /\ \A s \in FittingSizes : s <= ret
                                /\ settings.maxLines # 0 =>
                                     LineCountAt(ret).lineCount <= settings.maxLines

\* C3: when the width measured at the start is NaN, limiter returns false and
\* leaves the element as it was: no font size written, neither helper class
\* on it, whatever growInHeight is.
C3_NotReadyLeavesElement ==
    (pc = "returned" /\ IsNaN(originalWidth)) =>
        /\ ret = RetFalse
        /\ styleFontSize = entry.style
        /\ "fullWidth" \notin classList
        /\ "growInHeight" \notin classList

\* C6: the font size committed to the element's style at the end of the
\* search is never below minFontSize and never above maxFontSize, for every
\* minFontSize <= maxFontSize, whole or not.
C6_CommittedWithinBounds ==
    (Returned /\ EffMin <= EffMax) =>
        /\ EffMin <= styleFontSize
        /\ styleFontSize <= EffMax

\* C4: a second call on the element as the first call left it, with the same
\* settings, returns the font size the first call returned.
C4_SecondCallReturnsTheSame ==
    (Returned /\ call = "again") => ret = firstRet

\* C5: with maxLines and maxHeight unset and minFontSize fixed, the size
\* returned does not decrease when maxFontSize grows (the maxima compared as
\* the search takes them, a missing one being 100).
C5_MonotoneInMaxFontSize ==
    (Returned /\ call = "other"
              /\ settings.maxLines = 0 /\ settings.maxHeight = NoPolicy
              /\ OrDefault(firstSettings.maxFontSize, DefaultMaxFontSize) <= EffMax)
        => firstRet <= ret

\* C19: whenever limiter returns a number, neither the fullWidth nor the
\* growInHeight class is on the element, growInHeight with
\* minFontSize > maxFontSize (no probe, minFontSize returned) included.
C19_NoHelperClassLeft ==
    Returned => "fullWidth" \notin classList /\ "growInHeight" \notin classList

\* C18: a call made while the height measures NaN and the width does not runs
\* the search, and leaves the caller's settings as they were given: in a later
\* call with the same settings object, the height measurable by then,
\* widthOnly is what the caller set.
C18_WidthOnlyForOneCall ==
    /\ (pc = "returned" /\ call = "first") => ret # RetFalse /\ settings = firstSettings
    /\ (call = "later" /\ pc \in {"loop", "returned"}) =>
          settings.widthOnly = firstSettings.widthOnly

\* the most probes a search over n sizes of the 0.01 grid can make
MostProbes(n) == IF n <= 0 THEN 0 ELSE Log2Floor[n] + 1

\* the sizes of the grid between low and high
Between == high.v - low.v

----------------------------------------------------------------------------
(* Claims about lineCount *)

LcOver == lcPc \in {"returned", "threw"}

\* C7: for an element whose text content is not empty after trimming,
\* lineCount returns a result with lineCount >= 1, whatever heights are
\* measured for its blocks (heights <= 0 and NaN included).
C7_AtLeastOneLine ==
    (LcOver /\ trimmedText(1)) => lcPc = "returned" /\ lcResult.lineCount >= 1

\* the array textNodesUnder has returned
BlocksReturned == lcPc \in {"blocks", "returned", "threw"}

\* C8: for every tree and every document order of its text nodes, the blocks
\* textNodesUnder returns never hold two distinct blocks of which one
\* contains the other.
C8_NoBlockInsideAnother ==
    BlocksReturned =>
        \A i, j \in 1 .. Len(elementsToCount) :
            i # j => ~contains(elementsToCount[i], elementsToCount[j])

\* C14: when lineCount is over, by a return or by a throw, no block holds a
\* synthetic line break or non-breaking space any more and the countingLines
\* class is off the element.
C14_ElementRestored ==
    LcOver => synthetic = {} /\ "countingLines" \notin classList

\* C15: a block whose natural height is measured <= 0 adds nothing to the
\* total, and lineCount goes on with the next block (and so returns).
C15_ZeroHeightBlockSkipped ==
    [][(lcPc = "blocks" /\ blockAt <= Len(elementsToCount)
          /\ LessEq(measured'.natural, 0)) =>
          /\ lcPc' = "blocks"
          /\ blockAt' = blockAt + 1
          /\ totalLineCount' = totalLineCount]_vars

\* the block measured last, and its height delta
LastBlock == elementsToCount[blockAt - 1]
LastDelta == Minus(measured.after, measured.natural)
BlockMeasured == lcPc \in {"blocks", "returned"} /\ blockAt > 1

\* n = Math.round(h / d) for h >= 0 and d > 0: n <= h / d + 0.5 < n + 1
IsRounded(n, h, d) == 2 * d * n <= 2 * h + d /\ 2 * h + d < 2 * d * (n + 1)

\* c = Math.floor(H / (d * 0.5)) for H >= 0 and d > 0: c <= 2 * H / d < c + 1
IsCap(c, H, d) == d * c <= 2 * H /\ 2 * H < d * (c + 1)

\* the lines of a block of height h > 0 and delta d > 0 under the element of
\* height H
IsBlockLines(n, h, d, H) ==
    \E r \in 0 .. h :
        /\ IsRounded(r, h, d)
        /\ LET lines == Max(1, r) IN
             IF IsNaN(H)
             THEN n = lines
             ELSE \E c \in 0 .. 2 * H :
                      /\ IsCap(c, H, d)
                      /\ n = IF c > 0 /\ c < lines THEN c ELSE lines

\* the block counts of the first n blocks, added up
RECURSIVE SumOfBlocks(_)
SumOfBlocks(n) ==
    IF n = 0 THEN 0 ELSE linesCounted[elementsToCount[n]] + SumOfBlocks(n - 1)

\* a block with natural height h > 0: h / d rounded and capped when d > 0,
\* 1 when d <= 0, and at least 1 in every case
BlockFormula ==
    (BlockMeasured /\ Greater(measured.natural, 0)) =>
        /\ Greater(LastDelta, 0) =>
               IsBlockLines(linesCounted[LastBlock], measured.natural, LastDelta,
                            naturalHeight)
        /\ LessEq(LastDelta, 0) => linesCounted[LastBlock] = 1
        /\ linesCounted[LastBlock] >= 1
        /\ totalLineCount = SumOfBlocks(blockAt - 1)

\* C16 as stated: the block formula, and the lineCount returned is the sum of
\* the block counts.
C16_TotalIsTheSum ==
    /\ BlockFormula
    /\ lcPc = "returned" => lcResult.lineCount = SumOfBlocks(Len(elementsToCount))

\* C16, amended: a block with natural height h > 0 and delta d counts
\* max(1, round(h / d)) lines when d > 0, replaced by c = floor(H / (d * 0.5))
\* when c > 0 and c is smaller, and 1 line when d <= 0, so at least 1; when
\* lineCount returns, its lineCount is the sum of the block counts, except
\* that a sum of 0 is raised to 1 for an element with text.
C16_TotalIsTheSumOrTheFloor ==
    /\ BlockFormula
    /\ lcPc = "returned" =>
          LET sum == SumOfBlocks(Len(elementsToCount)) IN
          lcResult.lineCount = IF sum = 0 /\ trimmedText(1) THEN 1 ELSE sum

\* a block of three lines capped to one by the element's height comes after
\* a block of one line, and lineCount has returned
C16_Witness ==
    /\ lcPc = "returned"
    /\ Len(elementsToCount) >= 2
    /\ measured = [natural |-> 3 * LinePx, after |-> 5 * LinePx]
    /\ naturalHeight = LinePx
    /\ linesCounted[LastBlock] = 1
    /\ lcResult.lineCount >= 2

\* every block measured NaN, and lineCount has returned 1 for the text
C16_FloorWitness ==
    /\ lcPc = "returned"
    /\ Len(elementsToCount) >= 1
    /\ SumOfBlocks(Len(elementsToCount)) = 0
    /\ lcResult.lineCount = 1

----------------------------------------------------------------------------
(* Claims about the <text-fit> element *)

\* C9: when the element carries disable-dynamic-font-size, a validation pass
\* does not invoke the limiter and does not change the element's font size.
C9_DisabledMeansNoLimiter ==
    (passes > 0 /\ attrs.disableDynamic) =>
        /\ ~pass.limiter
        /\ pc \notin {"idle", "loop", "returned", "threw"}
        /\ styleFontSize = pass.style

\* C10: with debounce-time = N > 0, a validation pass caused by a resize
\* event runs only once N ms have passed since the last resize event.
C10_ResizeDebounced ==
    (passes > 0 /\ pass.cause = "resize" /\ attrs.debounceTime > 0) =>
        pass.at - lastResize >= attrs.debounceTime

\* C11: during every validation pass no mutation observer is connected to the
\* element, and no step of the pass (font-size probes, helper-class toggles,
\* data-* writes) schedules a debounce timer or starts another pass.
C11_NoObserverDuringPass ==
    [][rvPc # "idle" => (~observer.on /\ timers' = timers /\ passes' = passes)]_vars

\* a pass started by the observer of an earlier pass is probing font sizes
C11_Witness ==
    /\ rvPc = "limiter"
    /\ pc = "loop"
    /\ probes > 0
    /\ passes >= 2
    /\ pass.cause = "mutation"
    /\ styleFontSize # pass.style

\* C12: every validation pass that starts runs to completion without
\* throwing: when it ends, done is true and a mutation observer is connected.
C12_PassCompletes ==
    [][(rvPc # "idle" /\ rvPc' = "idle") => (done' /\ observer'.on)]_vars

\* C20: from disconnectedCallback until the element is connected again or an
\* observed attribute of it is set, no validation pass starts and no mutation
\* observer is connected, whatever resize events happen.
C20_QuietWhileDisconnected ==
    /\ [](detached => ~observer.on)
    /\ [][(detached /\ detached') => passes' = passes]_vars

\* C21: reading the lineCount property of the element while no pass runs and
\* the observer is connected starts no validation pass, now or by a timer,
\* and leaves the element's font size, classes and child nodes as they were.
C21_ReadingLineCountIsPure ==
    [][(reads' # reads /\ rvPc = "idle" /\ observer.on) =>
          /\ passes' = passes
          /\ timers' = timers
          /\ styleFontSize' = styleFontSize
          /\ classList' = classList
          /\ synthetic' = synthetic]_vars

----------------------------------------------------------------------------
(* Claims about checkOverflow *)

\* C13: checkOverflow(element, "innerbox") always returns a boolean: true if
\* and only if the bottom of a direct child's bounding box lies below the
\* bottom of the element's own bounding box.
C13_InnerboxIsAnyChildBelow ==
    (ovResult # "none" /\ ovMode.kind = "innerbox") =>
        /\ ovResult \in {"true", "false"}
        /\ ovResult = "true" <=>
               \E b \in ovMeasures.childBottoms : Greater(b, ovMeasures.bottom)

====
